---- MODULE Spec2Model ----
(***************************************************************************)
(* Model of procs-need-restart (src/procs-need-restart.c): the scan of     *)
(* processes whose executable or mapped files were deleted or replaced.    *)
(* Strings are sequences of one-character strings.  Results of system      *)
(* calls on the process pseudo-filesystem are inputs drawn by the action   *)
(* that makes the call; a process may exit between any two steps of its    *)
(* classification.                                                         *)
(***************************************************************************)
EXTENDS Integers, Sequences, FiniteSets, TLC

\* ------------------------------------------------------------------ bounds
MaxEntries  == 2    \* PID entries readdir yields in one scan
MaxPatterns == 2    \* number of -f options
MaxFileSize == 1    \* bytes in a compared file
MaxLines    == 2    \* lines read from one maps stream
MaxArgs     == 1    \* explicit PID arguments

\* --------------------------------------------------------------- constants
RET_ERROR    == -1
EXIT_SUCCESS == 0
EXIT_FAILURE == 1

\* ----------------------------------------------------------------- strings
SeqsUpTo(S, n) == UNION {[1..k -> S] : k \in 0..n}

DELETED    == <<" ", "(", "d", "e", "l", "e", "t", "e", "d", ")">>
DELETED_NL == DELETED \o <<"\n">>
APK_NEW    == <<".", "a", "p", "k", "-", "n", "e", "w">>

\* The file names the model draws from.
Paths     == {<<"/", "a">>, <<"/", "b">>}

\* The -f arguments the model draws from.
Patterns  == {<<"!", "/", "a">>, <<"/", "*">>}

\* str_chomp: the string without *suffix* when it ends with it.
EndsWith(str, suffix) ==
    /\ Len(str) >= Len(suffix)
    /\ SubSeq(str, Len(str) - Len(suffix) + 1, Len(str)) = suffix

str_chomp(str, suffix) ==
    IF EndsWith(str, suffix)
    THEN [ok |-> TRUE,  str |-> SubSeq(str, 1, Len(str) - Len(suffix))]
    ELSE [ok |-> FALSE, str |-> str]

\* str_to_uint: the decimal value of a name made only of digits, else -1.
Digits == <<"0", "1", "2", "3", "4", "5", "6", "7", "8", "9">>

IsDigit(c) == \E i \in 1..10 : Digits[i] = c

DigitVal(c) == (CHOOSE i \in 1..10 : Digits[i] = c) - 1

RECURSIVE strtoul(_, _)
strtoul(str, acc) ==
    IF str = <<>> \/ ~IsDigit(Head(str))
    THEN [res |-> acc, end |-> str]
    ELSE strtoul(Tail(str), acc * 10 + DigitVal(Head(str)))

str_to_uint(str) ==
    IF str = <<>> \/ ~IsDigit(str[1])
    THEN RET_ERROR
    ELSE LET p == strtoul(str, 0)
         IN  IF p.res > 2147483647 \/ p.end # <<>> THEN RET_ERROR ELSE p.res

\* fnmatch(3) with no flags over "*", "?" and literal characters;
\* TRUE when the pattern matches the whole string.
RECURSIVE Fnmatch(_, _)
Fnmatch(p, s) ==
    IF p = <<>> THEN s = <<>>
    ELSE IF Head(p) = "*"
         THEN Fnmatch(Tail(p), s) \/ (s # <<>> /\ Fnmatch(p, Tail(s)))
    ELSE IF s = <<>> THEN FALSE
    ELSE IF Head(p) = "?" THEN Fnmatch(Tail(p), Tail(s))
    ELSE Head(p) = Head(s) /\ Fnmatch(Tail(p), Tail(s))

Negated(item) == item # <<>> /\ item[1] = "!"

RECURSIVE fnmatch_from(_, _, _)
fnmatch_from(patterns, string, i) ==
    IF i > Len(patterns) THEN FALSE
    ELSE LET item    == patterns[i]
             negated == Negated(item)
         IN  IF Fnmatch(IF negated THEN Tail(item) ELSE item, string)
             THEN (TRUE # negated)
             ELSE fnmatch_from(patterns, string, i + 1)

\* A plausible slip: the loop keeps going and the last matching rule wins.
RECURSIVE fnmatch_last(_, _, _, _)
fnmatch_last(patterns, string, i, acc) ==
    IF i > Len(patterns) THEN acc
    ELSE LET item    == patterns[i]
             negated == Negated(item)
         IN  IF Fnmatch(IF negated THEN Tail(item) ELSE item, string)
             THEN fnmatch_last(patterns, string, i + 1, (TRUE # negated))
             ELSE fnmatch_last(patterns, string, i + 1, acc)

fnmatch_any_lastwins(patterns, string) == fnmatch_last(patterns, string, 1, FALSE)

fnmatch_any(patterns, string) == fnmatch_from(patterns, string, 1)

\* The "skip files excluded based on given patterns" test of both checks.
Excluded(patterns, path) == Len(patterns) > 0 /\ ~fnmatch_any(patterns, path)

\* ------------------------------------------------------------------- files
Bytes    == {0, 1}
Contents == SeqsUpTo(Bytes, MaxFileSize)

\* A path as the comparator meets it: err names the first call that fails
\* on it ("none": a readable regular file holding data).
Files == [err : {"none"}, data : Contents]
            \cup {[err |-> e, data |-> <<>>] : e \in {"open", "fstat"}}
            \cup {[err |-> "mmap", data |-> <<0>>]}

NoEnt == [err |-> "open", data |-> <<>>]

\* mmap fails on a zero length (EINVAL) and on a file that cannot be mapped.
MmapOk(f, size) == size # 0 /\ f.err # "mmap"

cmp_files(f1, f2) ==
    IF f1.err = "open" THEN [res |-> RET_ERROR, logged |-> FALSE]
    ELSE IF f2.err = "open" THEN [res |-> RET_ERROR, logged |-> FALSE]
    ELSE IF f1.err = "fstat" \/ f2.err = "fstat"
         THEN [res |-> RET_ERROR, logged |-> FALSE]
    ELSE IF Len(f1.data) # Len(f2.data) THEN [res |-> 1, logged |-> FALSE]
    ELSE LET size == Len(f1.data)
         IN  IF ~MmapOk(f1, size) THEN [res |-> RET_ERROR, logged |-> TRUE]
             ELSE IF ~MmapOk(f2, size) THEN [res |-> RET_ERROR, logged |-> TRUE]
             ELSE [res |-> IF f1.data = f2.data THEN 0 ELSE 1, logged |-> FALSE]

\* Both paths are readable regular files with byte-identical content.
SameContent(f1, f2) == f1.err = "none" /\ f2.err = "none" /\ f1.data = f2.data

\* A plausible slip: an inconclusive comparison counted as "identical".
CmpIdentical_lenient(c) == c # 1

\* The callers' test "cmp_files(...) == 0".
CmpIdentical(c) == c = 0

\* --------------------------------------------------------------- processes
Pids       == {1, 2}
KernelPids == {2}               \* kthreadd

\* Names readdir may yield under the procfs root.
DirNames == {<<Digits[p + 1]>> : p \in Pids} \cup {<<"s">>, <<"1", "s">>}

\* Link targets of /proc/<pid>/exe.
LinkTexts == Paths \cup {p \o DELETED : p \in Paths}
                   \cup {p \o APK_NEW \o DELETED : p \in Paths}

\* long: "/proc/<pid>/root/" followed by the stripped target does not fit
\* in PATH_MAX characters.
Links == [text : LinkTexts, long : BOOLEAN]

\* Lines of /proc/<pid>/maps: head is "ok" when the address range, perms,
\* offset, device and inode columns parse; text is the rest of the line.
LineTexts == {p \o <<"\n">> : p \in Paths}
                \cup {p \o DELETED_NL : p \in Paths}
                \cup {p \o APK_NEW \o DELETED_NL : p \in Paths}

MapLines == [head : {"ok"}, dev_major : {0, 8}, inode : {0, 5},
             text : {p \o DELETED_NL : p \in Paths}]
               \cup [head : {"ok"}, dev_major : {8}, inode : {5},
                     text : LineTexts \ {p \o DELETED_NL : p \in Paths}]
               \cup {[head |-> "bad", dev_major |-> 0, inode |-> 0,
                      text |-> <<"/", "a">> \o DELETED_NL]}

\* errno of readlink on /proc/<pid>/exe ("OK": the link was read).
ReadlinkOutcomes(p, up) ==
    IF ~up THEN {"ENOENT"}
    ELSE IF p \in KernelPids THEN {"ENOENT", "EACCES"}
    ELSE {"OK", "EACCES", "EIO"}

\* errno of fopen on /proc/<pid>/maps.
FopenOutcomes(p, up) ==
    IF ~up THEN {"ENOENT"} ELSE {"OK", "EACCES", "EIO"}

\* errno of kill(pid, 0); ESRCH on a live process: it exits just before.
KillOutcomes(p, up) ==
    IF ~up THEN {"ESRCH"}
    ELSE IF p \in KernelPids THEN {"OK", "EPERM"}
    ELSE {"OK", "EPERM", "ESRCH"}

proc_exists(k) == IF k = "OK" THEN 0 ELSE IF k = "ESRCH" THEN 1 ELSE RET_ERROR

\* "fopen_err == EACCES && flags & FLAG_IGNORE_EACCES" (and for link_err).
IgnoreEacces(errno, fl) == errno = "EACCES" /\ fl.ignore_eacces

\* Outcome of a failed readlink / fopen, k being the result of kill().
OpenFailure(errno, fl, k) ==
    IF IgnoreEacces(errno, fl)
    THEN [ret |-> 1, logged |-> FALSE, probed |-> FALSE]
    ELSE IF proc_exists(k) = 1
         THEN [ret |-> 1, logged |-> FALSE, probed |-> TRUE]
         ELSE [ret |-> RET_ERROR, logged |-> TRUE, probed |-> TRUE]

\* A plausible slip: the mapped-files check skipped after a stale executable
\* in verbose mode too.
ShortCircuit_noverbose(r1, fl) == r1 = 0

\* "res1 == 0 && !(flags & FLAG_VERBOSE)" in scan_proc.
ShortCircuit(r1, fl) == r1 = 0 /\ ~fl.verbose

\* A plausible slip: permission denials ignored for explicit PIDs as well.
IgnoreFlag_anymode(ex, uid) == uid # 0

\* main: FLAG_IGNORE_EACCES is set only on the full-scan branch.
IgnoreFlag(ex, uid) == ~ex /\ uid # 0

\* A plausible slip: the loop goes on after the first stale file.
MapsBreak_never(fl) == FALSE

\* The "break" after printing the PID in non-verbose mode.
MapsBreak(fl) == ~fl.verbose

\* One iteration of the loop over the maps lines, up to the comparison:
\* what becomes of line l when last is the value of last_filename.
LineOutcome(l, last, pats) ==
    LET c1 == str_chomp(l.text, DELETED_NL)
        fn == str_chomp(c1.str, APK_NEW).str
    IN  IF ~c1.ok THEN [outcome |-> "notdeleted", fn |-> <<>>]
        ELSE IF l.head # "ok" \/ fn = <<>> THEN [outcome |-> "malformed", fn |-> <<>>]
        ELSE IF fn = last THEN [outcome |-> "dup", fn |-> fn]
        ELSE IF l.inode = 0 \/ l.dev_major = 0 THEN [outcome |-> "synthetic", fn |-> fn]
        ELSE IF Excluded(pats, fn) THEN [outcome |-> "filtered", fn |-> fn]
        ELSE [outcome |-> "candidate", fn |-> fn]

\* ------------------------------------------------------------------- state
VARIABLES
    pc,             \* position of the program
    euid,           \* effective UID of the invoking user
    flags,          \* [verbose, ignore_eacces]
    file_patterns,  \* the -f arguments, in order
    explicit,       \* TRUE when PIDs were given on the command line
    argi,           \* number of explicit PIDs taken from the pids array
    enumerated,     \* number of PIDs next_pid has returned
    pid,            \* the PID at hand
    alive,          \* the process at hand exists
    status,         \* exit status being accumulated
    res1, res2, res,    \* results in scan_proc (res2 is also the local res
                        \* of proc_maps_replaced_files while it runs)
    link_path,      \* stripped exe link target and its length class
    last_filename,  \* last_filename of proc_maps_replaced_files
    map,            \* map.filename of the line at hand
    nlines,         \* lines read from the maps stream
    \* observations
    handled,        \* number of them skipped as kernel processes or
                    \* passed to scan_proc
    nout,           \* lines written to stdout by the classification at hand
    anyHard,        \* some check has returned RET_ERROR
    exitPoint,      \* where the process at hand exited: "none", "listed"
                    \* (before the exe link is read, between the two
                    \* checks, before a comparison) or "other"
    outAfterExit,   \* a line was written for it after it exited
    errAfterExit,   \* a check returned RET_ERROR for it after it exited
    mapsRan,        \* the mapped-files check was entered
    emittedLast,    \* last_filename is the filename of a line that passed
                    \* the inode / device test
    openev,         \* the last step's failed readlink / fopen
    filtev,         \* the last step's filter decision
    cmpev,          \* the last step's comparison
    lineev          \* the last step's maps line

cfgv   == <<euid, flags, file_patterns, explicit>>
enumv  == <<argi, enumerated, handled>>
localv == <<res1, res2, res, link_path, last_filename, map, nlines>>
obsv   == <<nout, exitPoint, outAfterExit, errAfterExit, mapsRan, emittedLast>>
evv    == <<openev, filtev, cmpev, lineev>>
vars   == <<pc, pid, alive, status, anyHard, cfgv, enumv, localv, obsv, evv>>

NoLink == [text |-> <<>>, long |-> FALSE]
NoOpen == [valid |-> FALSE, site |-> "", errno |-> "", ret |-> 0,
           logged |-> FALSE, gone |-> FALSE]
NoFilt == [valid |-> FALSE, site |-> "", path |-> <<>>, selected |-> FALSE]
NoCmp  == [valid |-> FALSE, site |-> "", toolong |-> FALSE, same |-> FALSE,
           cmp |-> 0, printed |-> FALSE, ret |-> 0]
NoLine == [valid |-> FALSE, dup |-> FALSE, real |-> FALSE]

NoEvents == openev' = NoOpen /\ filtev' = NoFilt /\ cmpev' = NoCmp /\ lineev' = NoLine

ResetLocals ==
    /\ res1' = 1 /\ res2' = 1 /\ res' = 1
    /\ link_path' = NoLink /\ last_filename' = <<>> /\ map' = <<>> /\ nlines' = 0

Init ==
    /\ pc = "main"
    /\ euid \in {0, 1000}
    /\ flags = [verbose |-> FALSE, ignore_eacces |-> FALSE]
    /\ file_patterns = <<>>
    /\ explicit = FALSE
    /\ argi = 0
    /\ enumerated = 0
    /\ pid = 0
    /\ alive = TRUE
    /\ status = EXIT_SUCCESS
    /\ res1 = 1 /\ res2 = 1 /\ res = 1
    /\ link_path = NoLink /\ last_filename = <<>> /\ map = <<>> /\ nlines = 0
    /\ handled = 0
    /\ nout = 0 /\ anyHard = FALSE
    /\ exitPoint = "none" /\ outAfterExit = FALSE /\ errAfterExit = FALSE
    /\ mapsRan = FALSE /\ emittedLast = FALSE
    /\ openev = NoOpen /\ filtev = NoFilt /\ cmpev = NoCmp /\ lineev = NoLine

\* ----------------------------------------------------------------- actions
\* main: option parsing, then one of the two scan modes.
Main ==
    /\ pc = "main"
    /\ \E v \in BOOLEAN, pats \in SeqsUpTo(Patterns, MaxPatterns), ex \in BOOLEAN :
          /\ flags' = [verbose |-> v, ignore_eacces |-> IgnoreFlag(ex, euid)]
          /\ file_patterns' = pats
          /\ explicit' = ex
          /\ pc' = IF ex THEN "scan_procs" ELSE "opendir"
    /\ NoEvents
    /\ UNCHANGED <<euid, pid, alive, status, anyHard, enumv, localv, obsv>>

\* scan_proc is entered for p.
BeginClassification(p) ==
    /\ pid' = p
    /\ ResetLocals
    /\ nout' = 0
    /\ exitPoint' = "none"
    /\ outAfterExit' = FALSE /\ errAfterExit' = FALSE
    /\ mapsRan' = FALSE /\ emittedLast' = FALSE
    /\ pc' = "exe_readlink"

\* The observations of one classification end with it.
ResetObs ==
    /\ nout' = 0 /\ exitPoint' = "none"
    /\ outAfterExit' = FALSE /\ errAfterExit' = FALSE
    /\ mapsRan' = FALSE /\ emittedLast' = FALSE

\* scan_procs: the next element of the pids array (-1 ends it).
ScanProcsNext ==
    /\ pc = "scan_procs"
    /\ \E p \in Pids \cup {-1} :
          IF p = -1
          THEN /\ argi >= 1
               /\ pc' = "exit"
               /\ UNCHANGED <<pid, argi, localv, obsv>>
          ELSE /\ argi < MaxArgs
               /\ argi' = argi + 1
               /\ BeginClassification(p)
    /\ NoEvents
    /\ UNCHANGED <<alive, status, anyHard, cfgv, enumerated, handled>>

\* scan_all_procs: opendir.
Opendir ==
    /\ pc = "opendir"
    /\ \E ok \in BOOLEAN :
          /\ pc' = IF ok THEN "first_next_pid" ELSE "exit"
          /\ status' = IF ok THEN status ELSE EXIT_FAILURE
    /\ NoEvents
    /\ UNCHANGED <<pid, alive, anyHard, cfgv, enumv, localv, obsv>>

\* One readdir of next_pid called before the loop of scan_all_procs.
FirstNextPid ==
    /\ pc = "first_next_pid"
    /\ \E e \in DirNames \cup {<<>>} :
          IF e = <<>>
          THEN /\ status' = EXIT_FAILURE
               /\ pc' = "exit"
               /\ UNCHANGED <<pid, enumerated>>
          ELSE /\ status' = status
               /\ IF str_to_uint(e) # RET_ERROR
                  THEN /\ enumerated < MaxEntries
                       /\ enumerated' = enumerated + 1
                       /\ pid' = str_to_uint(e)
                       /\ pc' = "loop_next_pid"
                  ELSE UNCHANGED <<enumerated, pid, pc>>
    /\ NoEvents
    /\ UNCHANGED <<alive, anyHard, cfgv, argi, handled, localv, obsv>>

\* One readdir of next_pid called by the loop condition of scan_all_procs.
LoopNextPid ==
    /\ pc = "loop_next_pid"
    /\ \E e \in DirNames \cup {<<>>} :
          IF e = <<>>
          THEN /\ pc' = "exit"
               /\ UNCHANGED <<pid, enumerated>>
          ELSE IF str_to_uint(e) # RET_ERROR
               THEN /\ enumerated < MaxEntries
                    /\ enumerated' = enumerated + 1
                    /\ pid' = str_to_uint(e)
                    /\ pc' = "is_kernel_proc"
               ELSE UNCHANGED <<enumerated, pid, pc>>
    /\ NoEvents
    /\ UNCHANGED <<alive, status, anyHard, cfgv, argi, handled, localv, obsv>>

\* is_kernel_proc and the branch of scan_all_procs on it.
IsKernelProc ==
    /\ pc = "is_kernel_proc"
    /\ \E o \in ReadlinkOutcomes(pid, alive) :
          LET lstat_ok == alive
          IN  IF o = "ENOENT" /\ lstat_ok
              THEN /\ pc' = "loop_next_pid"
                   /\ UNCHANGED <<pid, localv, obsv>>
              ELSE BeginClassification(pid)
    /\ handled' = handled + 1
    /\ NoEvents
    /\ UNCHANGED <<alive, status, anyHard, cfgv, argi, enumerated>>

\* The process at hand exits.
ProcExit ==
    /\ pc \in {"exe_readlink", "exe_cmp", "scan_proc_res1", "maps_open",
               "maps_getline", "maps_cmp", "scan_proc_res2"}
    /\ alive /\ pid \notin KernelPids
    /\ alive' = FALSE
    /\ exitPoint' = IF pc \in {"exe_readlink", "scan_proc_res1", "maps_open",
                                "exe_cmp", "maps_cmp"}
                     THEN "listed" ELSE "other"
    /\ UNCHANGED <<pc, pid, status, anyHard, cfgv, enumv, localv, nout,
                   outAfterExit, errAfterExit, mapsRan, emittedLast, evv>>

\* A line is written to stdout for the PID at hand.
WriteLine ==
    /\ nout' = nout + 1
    /\ outAfterExit' = (outAfterExit \/ ~alive)

\* proc_has_replaced_exe up to the comparison: resolve_link, its failure
\* handling, the two str_chomp and the filter.
ExeReadlink ==
    /\ pc = "exe_readlink"
    /\ \E o \in ReadlinkOutcomes(pid, alive) :
          IF o # "OK"
          THEN \E k \in KillOutcomes(pid, alive) :
                 LET f    == OpenFailure(o, flags, k)
                     gone == f.probed /\ k = "ESRCH"
                 IN  /\ res1' = f.ret
                     /\ alive' = (alive /\ ~gone)
                     /\ exitPoint' = IF gone /\ alive
                                     THEN "other" ELSE exitPoint
                     /\ anyHard' = (anyHard \/ f.ret = RET_ERROR)
                     /\ errAfterExit' =
                           (errAfterExit \/ (f.ret = RET_ERROR /\ ~alive))
                     /\ openev' = [valid |-> TRUE, site |-> "exe", errno |-> o,
                                   ret |-> f.ret, logged |-> f.logged,
                                   gone |-> gone]
                     /\ filtev' = NoFilt
                     /\ link_path' = link_path
                     /\ pc' = "scan_proc_res1"
          ELSE \E l \in Links :
                 LET c1   == str_chomp(l.text, DELETED)
                     path == str_chomp(c1.str, APK_NEW).str
                     excl == Excluded(file_patterns, path)
                 IN  /\ openev' = NoOpen
                     /\ UNCHANGED <<alive, exitPoint, anyHard, errAfterExit>>
                     /\ IF ~c1.ok
                        THEN /\ res1' = 1
                             /\ filtev' = NoFilt
                             /\ link_path' = link_path
                             /\ pc' = "scan_proc_res1"
                        ELSE /\ filtev' = [valid |-> TRUE, site |-> "exe",
                                           path |-> path, selected |-> ~excl]
                             /\ IF excl
                                THEN /\ res1' = 1
                                     /\ link_path' = link_path
                                     /\ pc' = "scan_proc_res1"
                                ELSE /\ res1' = res1
                                     /\ link_path' = [text |-> path, long |-> l.long]
                                     /\ pc' = "exe_cmp"
    /\ cmpev' = NoCmp /\ lineev' = NoLine
    /\ UNCHANGED <<pid, status, cfgv, enumv, res2, res, last_filename, map,
                   nlines, nout, outAfterExit, mapsRan, emittedLast>>

\* Files found under /proc/<pid>.
ProcFiles(p, up) == IF up THEN Files ELSE {NoEnt}

\* proc_has_replaced_exe from the snprintf of file_path to its return.
ExeCmp ==
    /\ pc = "exe_cmp"
    /\ IF link_path.long
       THEN /\ res1' = 0
            /\ WriteLine
            /\ cmpev' = [valid |-> TRUE, site |-> "exe", toolong |-> TRUE,
                         same |-> FALSE, cmp |-> RET_ERROR,
                         printed |-> TRUE, ret |-> 0]
       ELSE \E f1 \in ProcFiles(pid, alive), f2 \in ProcFiles(pid, alive) :
              LET c == cmp_files(f1, f2).res
              IN  IF CmpIdentical(c)
                  THEN /\ res1' = 1
                       /\ UNCHANGED <<nout, outAfterExit>>
                       /\ cmpev' = [valid |-> TRUE, site |-> "exe",
                                    toolong |-> FALSE, same |-> SameContent(f1, f2),
                                    cmp |-> c, printed |-> FALSE, ret |-> 1]
                  ELSE /\ res1' = 0
                       /\ WriteLine
                       /\ cmpev' = [valid |-> TRUE, site |-> "exe",
                                    toolong |-> FALSE, same |-> SameContent(f1, f2),
                                    cmp |-> c, printed |-> TRUE, ret |-> 0]
    /\ link_path' = NoLink
    /\ pc' = "scan_proc_res1"
    /\ openev' = NoOpen /\ filtev' = NoFilt /\ lineev' = NoLine
    /\ UNCHANGED <<pid, alive, status, anyHard, cfgv, enumv, res2, res,
                   last_filename, map, nlines, exitPoint, errAfterExit,
                   mapsRan, emittedLast>>

\* scan_proc between its two calls.
ScanProcBranch ==
    /\ pc = "scan_proc_res1"
    /\ IF res1 = RET_ERROR
       THEN res' = RET_ERROR /\ pc' = "scan_ret"
       ELSE IF ShortCircuit(res1, flags)
            THEN res' = 0 /\ pc' = "scan_ret"
            ELSE res' = res /\ pc' = "maps_open"
    /\ NoEvents
    /\ UNCHANGED <<pid, alive, status, anyHard, cfgv, enumv, res1, res2,
                   link_path, last_filename, map, nlines, obsv>>

\* proc_maps_replaced_files: fopen of the maps stream and its failure handling.
MapsOpen ==
    /\ pc = "maps_open"
    /\ mapsRan' = TRUE
    /\ \E o \in FopenOutcomes(pid, alive) :
          IF o # "OK"
          THEN \E k \in KillOutcomes(pid, alive) :
                 LET f    == OpenFailure(o, flags, k)
                     gone == f.probed /\ k = "ESRCH"
                 IN  /\ res2' = f.ret
                     /\ alive' = (alive /\ ~gone)
                     /\ exitPoint' = IF gone /\ alive
                                     THEN "other" ELSE exitPoint
                     /\ anyHard' = (anyHard \/ f.ret = RET_ERROR)
                     /\ errAfterExit' =
                           (errAfterExit \/ (f.ret = RET_ERROR /\ ~alive))
                     /\ openev' = [valid |-> TRUE, site |-> "maps", errno |-> o,
                                   ret |-> f.ret, logged |-> f.logged,
                                   gone |-> gone]
                     /\ pc' = "scan_proc_res2"
          ELSE /\ res2' = 1
               /\ openev' = NoOpen
               /\ pc' = "maps_getline"
               /\ UNCHANGED <<alive, exitPoint, anyHard, errAfterExit>>
    /\ filtev' = NoFilt /\ cmpev' = NoCmp /\ lineev' = NoLine
    /\ UNCHANGED <<pid, status, cfgv, enumv, res1, res, link_path,
                   last_filename, map, nlines, nout, outAfterExit, emittedLast>>

\* proc_maps_replaced_files: getline and the loop body up to the comparison.
MapsGetline ==
    /\ pc = "maps_getline"
    /\ \/ /\ pc' = "scan_proc_res2"
          /\ NoEvents
          /\ UNCHANGED <<last_filename, map, nlines, emittedLast>>
       \/ /\ nlines < MaxLines
          /\ \E l \in MapLines :
                LET r == LineOutcome(l, last_filename, file_patterns)
                IN  /\ nlines' = nlines + 1
                    /\ last_filename' =
                          IF r.outcome \in {"synthetic", "filtered", "candidate"}
                          THEN r.fn ELSE last_filename
                    /\ emittedLast' =
                          IF r.outcome \in {"filtered", "candidate"} THEN TRUE
                          ELSE IF r.outcome = "synthetic" THEN FALSE
                          ELSE emittedLast
                    /\ lineev' = [valid |-> TRUE, dup |-> r.outcome = "dup",
                                  real |-> l.inode # 0 /\ l.dev_major # 0]
                    /\ filtev' = IF r.outcome \in {"filtered", "candidate"}
                                 THEN [valid |-> TRUE, site |-> "maps",
                                       path |-> r.fn,
                                       selected |-> r.outcome = "candidate"]
                                 ELSE NoFilt
                    /\ IF r.outcome = "candidate"
                       THEN map' = r.fn /\ pc' = "maps_cmp"
                       ELSE map' = map /\ pc' = pc
          /\ openev' = NoOpen /\ cmpev' = NoCmp
    /\ UNCHANGED <<pid, alive, status, anyHard, cfgv, enumv, res1, res2, res,
                   link_path, nout, exitPoint, outAfterExit, errAfterExit,
                   mapsRan>>

\* proc_maps_replaced_files: the comparison of the line at hand and the report.
MapsCmp ==
    /\ pc = "maps_cmp"
    /\ \E f1 \in Files, f2 \in ProcFiles(pid, alive) :
          LET c == cmp_files(f1, f2).res
          IN  IF CmpIdentical(c)
              THEN /\ pc' = "maps_getline"
                   /\ UNCHANGED <<res2, nout, outAfterExit>>
                   /\ cmpev' = [valid |-> TRUE, site |-> "maps",
                                toolong |-> FALSE, same |-> SameContent(f1, f2),
                                cmp |-> c, printed |-> FALSE, ret |-> res2]
              ELSE /\ res2' = 0
                   /\ WriteLine
                   /\ pc' = IF MapsBreak(flags) THEN "scan_proc_res2"
                                                ELSE "maps_getline"
                   /\ cmpev' = [valid |-> TRUE, site |-> "maps",
                                toolong |-> FALSE, same |-> SameContent(f1, f2),
                                cmp |-> c, printed |-> TRUE, ret |-> 0]
    /\ map' = <<>>
    /\ openev' = NoOpen /\ filtev' = NoFilt /\ lineev' = NoLine
    /\ UNCHANGED <<pid, alive, status, anyHard, cfgv, enumv, res1, res,
                   link_path, last_filename, nlines, exitPoint, errAfterExit,
                   mapsRan, emittedLast>>

\* scan_proc: "return res1 * res2".
ScanProcMul ==
    /\ pc = "scan_proc_res2"
    /\ res' = res1 * res2
    /\ pc' = "scan_ret"
    /\ NoEvents
    /\ UNCHANGED <<pid, alive, status, anyHard, cfgv, enumv, res1, res2,
                   link_path, last_filename, map, nlines, obsv>>

\* scan_procs / scan_all_procs: the test of scan_proc's result.
ScanReturn ==
    /\ pc = "scan_ret"
    /\ status' = IF res < 0 THEN EXIT_FAILURE ELSE status
    /\ pc' = IF explicit THEN "scan_procs" ELSE "loop_next_pid"
    /\ ResetLocals
    /\ ResetObs
    /\ NoEvents
    /\ pid' = 0 /\ alive' = TRUE
    /\ UNCHANGED <<anyHard, cfgv, enumv>>

Next ==
    \/ Main
    \/ ScanProcsNext
    \/ Opendir
    \/ FirstNextPid
    \/ LoopNextPid
    \/ IsKernelProc
    \/ ProcExit
    \/ ExeReadlink
    \/ ExeCmp
    \/ ScanProcBranch
    \/ MapsOpen
    \/ MapsGetline
    \/ MapsCmp
    \/ ScanProcMul
    \/ ScanReturn

Spec == Init /\ [][Next]_vars

\* ------------------------------------------------------------------ claims
\* C1: when a full-system scan ends, every PID the directory enumeration
\* yielded, the first one included, was either skipped as a kernel process
\* or passed to scan_proc.
C1_EveryEnumeratedPidHandled ==
    (pc = "exit" /\ ~explicit) => handled = enumerated

\* C2: once the process at hand has exited before its exe link is read,
\* between the executable check and the opening of the maps stream, or
\* between the reading of a link / maps line and the comparison, no line is
\* written for it and no check reports an error for it.
C2_VanishedProcessNotReported ==
    exitPoint = "listed" => ~outAfterExit /\ ~errAfterExit

\* C3: the final status is failure whenever some check of some scanned
\* process returned a hard error, in verbose and non-verbose mode, also when
\* the executable of the same process was found stale.
C3_HardErrorFailsScan ==
    (pc = "exit" /\ anyHard) => status = EXIT_FAILURE

\* C4 as claimed: with a non-root effective UID a permission denial on the
\* exe link or the maps stream yields "not stale" without diagnostic, in
\* both modes; as root it is a hard error (while the process exists).
C4_Original ==
    (openev.valid /\ openev.errno = "EACCES")
        => IF euid # 0
           THEN openev.ret = 1 /\ ~openev.logged
           ELSE openev.gone \/ (openev.ret = RET_ERROR /\ openev.logged)

\* C4 as amended: the permission denial yields "not stale" without
\* diagnostic only in a full scan by a non-root user; with explicit PIDs
\* (any user) and as root it is a hard error with a diagnostic, unless the
\* process is found gone, which yields "not stale".
C4_Amended ==
    (openev.valid /\ openev.errno = "EACCES")
        => IF ~explicit /\ euid # 0
           THEN openev.ret = 1 /\ ~openev.logged
           ELSE IF openev.gone
                THEN openev.ret = 1 /\ ~openev.logged
                ELSE openev.ret = RET_ERROR /\ openev.logged

C4_Witness ==
    /\ openev.valid /\ openev.errno = "EACCES"
    /\ explicit /\ euid # 0
    /\ openev.ret = RET_ERROR /\ openev.logged

\* The indices of the rules whose glob matches path.
MatchingRules(pats, path) ==
    {i \in 1..Len(pats) :
        Fnmatch(IF Negated(pats[i]) THEN Tail(pats[i]) ELSE pats[i], path)}

\* The decision the rule list prescribes for path.
FirstMatchSelects(pats, path) ==
    IF pats = <<>> THEN TRUE
    ELSE IF MatchingRules(pats, path) = {} THEN FALSE
    ELSE LET first == CHOOSE i \in MatchingRules(pats, path) :
                         \A j \in MatchingRules(pats, path) : i <= j
         IN  ~Negated(pats[first])

\* C5: the filter decision of the executable check and of the mapped-files
\* check is: selected on an empty rule list, else the polarity of the first
\* rule whose glob matches, else not selected.
C5_FilterIsFirstMatch ==
    filtev.valid => filtev.selected = FirstMatchSelects(file_patterns, filtev.path)

C5_Witness ==
    /\ filtev.valid /\ filtev.site = "maps"
    /\ \E i, j \in MatchingRules(file_patterns, filtev.path) :
          i < j /\ Negated(file_patterns[i]) # Negated(file_patterns[j])

\* C6: two readable files of equal size and byte-identical content, both of
\* zero length included, compare equal (0) and the candidate is not reported.
C6_IdenticalFilesCompareEqual ==
    (cmpev.valid /\ cmpev.same) => (cmpev.cmp = 0 /\ ~cmpev.printed)

\* C7 as claimed: in verbose mode the mapped-files check runs whatever the
\* executable check returned; in non-verbose mode it is skipped only when
\* the executable check reported stale.
C7_Original ==
    pc = "scan_ret"
        => /\ flags.verbose => mapsRan
           /\ (~flags.verbose /\ ~mapsRan) => res1 = 0

\* C7 as amended: the mapped-files check is skipped exactly when the
\* executable check returned an error (either mode) or reported stale in
\* non-verbose mode.
C7_Amended ==
    pc = "scan_ret"
        => (mapsRan <=> ~(res1 = RET_ERROR \/ (res1 = 0 /\ ~flags.verbose)))

C7_Witness ==
    pc = "scan_ret" /\ flags.verbose /\ res1 = 0 /\ mapsRan

\* C8: a deletion-marked, well-formed line with a real inode and device is
\* dropped as a duplicate only if the filename it repeats is that of a line
\* that passed the inode / device test.
C8_DedupAgainstEmittedOnly ==
    (lineev.valid /\ lineev.dup /\ lineev.real) => emittedLast

\* C9: in non-verbose mode one classification writes at most one line, and
\* when it ends it has written one line exactly if its result is stale.
C9_OneLineIffStale ==
    ~flags.verbose
        => /\ nout <= 1
           /\ pc = "scan_ret" => (nout = 1 <=> res = 0)

C9_Witness ==
    /\ pc = "scan_ret" /\ ~flags.verbose
    /\ res1 = 1 /\ res = 0 /\ nout = 1

\* C10: a selected, deletion-marked candidate whose comparison is not
\* conclusive (a file fails to open, stat or map, or the root-relative path
\* is over-length) or finds a difference is reported and makes the check
\* return stale; only the result "equal" leaves it unreported.
C10_InconclusiveIsStale ==
    cmpev.valid
        => /\ (cmpev.cmp # 0 \/ cmpev.toolong) => (cmpev.printed /\ cmpev.ret = 0)
           /\ ~cmpev.printed => (cmpev.cmp = 0 /\ ~cmpev.toolong)

C10_Witness ==
    /\ cmpev.valid /\ cmpev.site = "maps"
    /\ cmpev.cmp = RET_ERROR /\ cmpev.printed /\ cmpev.ret = 0

====
